---- MODULE Spec2Model ----
(***************************************************************************)
(* The sharded buffer cache of kernel/bio.c: HASHSIZE bucket lists, one    *)
(* free list per cpu, a sleep lock per buffer.  Lists are the circular     *)
(* doubly linked lists of the source (next/prev pointers and sentinel      *)
(* heads); each context is a kernel thread executing bread, bwrite,        *)
(* brelse, bpin and bunpin one lock-delimited step at a time.              *)
(***************************************************************************)
EXTENDS Integers, Sequences, FiniteSets, TLC

\* ---------------------------------------------------------------- sizes
HASHSIZE == 13
NBUF == 2
NCPU == 2
NPROC == 2
MaxPin == 1
MaxVer == 1

Bufs == 0 .. (NBUF - 1)
Cpus == 0 .. (NCPU - 1)
Buckets == 0 .. (HASHSIZE - 1)
Procs == 1 .. NPROC
NoProc == 0
NoBuf == -1
NoCpu == -1

\* The blocks the callers ask for: blockno 1 and 14 share bucket 8.
Keys == { <<1, 1>>, <<1, 2>>, <<1, 14>> }
NoKey == <<0, 0>>

\* Payloads name the block they belong to and a version of its content.
Vals == [key : Keys \cup {NoKey}, ver : 0 .. MaxVer]
ZeroVal == [key |-> NoKey, ver |-> 0]

\* ---------------------------------------------------------------- nodes
Buf(i) == <<"buf", i>>
Heads(i) == <<"heads", i>>
Freelist(i) == <<"freelist", i>>
Nodes == {Buf(i) : i \in Bufs} \cup {Heads(i) : i \in Buckets}
           \cup {Freelist(i) : i \in Cpus}

VARIABLES
  next, prev,            \* b->next, b->prev of every list node
  dev, blockno,          \* identity of each buffer
  valid, refcnt, data,   \* valid flag, reference count, payload
  lock,                  \* b->lock: the context holding the sleep lock, or NoProc
  headlk, freelk,        \* the spinlocks: holder or NoProc
  disk,                  \* the device: content of every block
  pc, lv,                \* each context's position and locals
  noff,                  \* each context's push_off depth
  pins,                  \* pins[c][b]: bpin calls of c on b not yet undone
  freed,                 \* history: the free buffers, the one freed first in front
  nread                  \* history: device reads into each buffer since its recycling

vars == <<next, prev, dev, blockno, valid, refcnt, data, lock, headlk, freelk,
          disk, pc, lv, noff, pins, freed, nread>>

\* ---------------------------------------------------------------- lists
SetNext(ls, n, v) == [ls EXCEPT !.next[n] = v]
SetPrev(ls, n, v) == [ls EXCEPT !.prev[n] = v]

\* b->prev->next = b->next; b->next->prev = b->prev  (bio.c:95-96, 116-117)
UnlinkPN(ls, b) ==
  LET l1 == SetNext(ls, ls.prev[b], ls.next[b])
  IN  SetPrev(l1, l1.next[b], l1.prev[b])

\* b->next->prev = b->prev; b->prev->next = b->next  (bio.c:179-180)
UnlinkNP(ls, b) ==
  LET l1 == SetPrev(ls, ls.next[b], ls.prev[b])
  IN  SetNext(l1, l1.prev[b], l1.next[b])

\* b->next = h.next; b->prev = &h; h.next->prev = b; h.next = b
InsertHead(ls, h, b) ==
  LET l1 == SetNext(ls, b, ls.next[h])
      l2 == SetPrev(l1, b, h)
      l3 == SetPrev(l2, l2.next[h], b)
  IN  SetNext(l3, h, b)

RECURSIVE Walk(_, _, _, _)
\* The nodes met from n following nx until head h, at most fuel of them.
Walk(nx, h, n, fuel) ==
  IF n = h \/ fuel = 0 THEN << >>
  ELSE <<n>> \o Walk(nx, h, nx[n], fuel - 1)

\* The list of head h, front (h.next) first.
List(h) == Walk(next, h, next[h], NBUF + 1)
\* The same list walked backwards from h.prev.
RevList(h) == Walk(prev, h, prev[h], NBUF + 1)

InList(n, h) == \E i \in 1 .. Len(List(h)) : List(h)[i] = n

\* ---------------------------------------------------------------- binit
RECURSIVE BinitLoop(_, _)
BinitLoop(ls, i) ==
  IF i = NBUF THEN ls
  ELSE BinitLoop(InsertHead(ls, Freelist(0), Buf(i)), i + 1)

BinitLists ==
  BinitLoop([next |-> [n \in Nodes |-> n], prev |-> [n \in Nodes |-> n]], 0)

\* hash (bio.c:64).  The sum is a uint; for the keys used here it stays far
\* below 2^32, so it never wraps.
hash(d, b) == (1234 * d + 5678 * b + 90) % HASHSIZE

\* refcnt is a uint.  A count is kept as the 32-bit two's complement number with
\* the same bits, so 0 - 1 is the all-ones value, written -1, and differs
\* from 0 as 4294967295 does.
UInc(x) == x + 1
UDec(x) == x - 1

\* A context's locals: the arguments dev/blockno, id, b, cpu and nc of bget and
\* brelse, the return statement bget left by (path), whether bread went
\* through the device read (rd), and the argument (pb) and caller (ret) of a
\* running bpin/bunpin.
InitLocals == [dev |-> 0, blockno |-> 0, id |-> 0, b |-> NoBuf, cpu |-> NoCpu,
               nc |-> 0, path |-> "", rd |-> FALSE, pb |-> NoBuf, ret |-> ""]

Init ==
  /\ next = BinitLists.next
  /\ prev = BinitLists.prev
  /\ dev = [i \in Bufs |-> 0]
  /\ blockno = [i \in Bufs |-> 0]
  /\ valid = [i \in Bufs |-> 0]
  /\ refcnt = [i \in Bufs |-> 0]
  /\ data = [i \in Bufs |-> ZeroVal]
  /\ lock = [i \in Bufs |-> NoProc]
  /\ headlk = [i \in Buckets |-> NoProc]
  /\ freelk = [i \in Cpus |-> NoProc]
  /\ disk = [k \in Keys |-> [key |-> k, ver |-> 0]]
  /\ pc = [c \in Procs |-> "idle"]
  /\ lv = [c \in Procs |-> InitLocals]
  /\ noff = [c \in Procs |-> 0]
  /\ pins = [c \in Procs |-> [i \in Bufs |-> 0]]
  /\ freed = [i \in 1 .. NBUF |-> i - 1]
  /\ nread = [i \in Bufs |-> 0]

\* ---------------------------------------------------------------- helpers
KeyOf(i) == <<dev[i], blockno[i]>>
Lists == [next |-> next, prev |-> prev]

\* The cpus no other context is running on with interrupts off.
FreeCpus(c) == {k \in Cpus : \A o \in Procs \ {c} : lv[o].cpu # k}

\* holdingsleep(&b->lock) for context c
holdingsleep(c, i) == lock[i] = c

RECURSIVE FirstMatch(_, _, _)
FirstMatch(seq, d, bn) ==
  IF seq = << >> THEN NoBuf
  ELSE IF dev[Head(seq)[2]] = d /\ blockno[Head(seq)[2]] = bn THEN Head(seq)[2]
  ELSE FirstMatch(Tail(seq), d, bn)

\* Mutant of Scan: dev and blockno are compared with each other's field.
ScanSwapped(id, d, bn) == FirstMatch(List(Heads(id)), bn, d)

\* The loop of bio.c:78-86: the first buffer of bucket id carrying (d, bn).
Scan(id, d, bn) == FirstMatch(List(Heads(id)), d, bn)

\* Mutant of HitRef: the hit does not count the new reference.
HitRefNone(r) == r

\* b->refcnt++ on a hit  (bio.c:80)
HitRef(r) == UInc(r)

\* Mutant of Victim: the loops do not stop at the sentinel of an empty pool,
\* which is taken for the buffer of the same index.
VictimNoSentinel(pool) == prev[Freelist(pool)][2]

\* Mutant of Victim: the loops start at the head of the pool (.next).
VictimHead(pool) ==
  IF next[Freelist(pool)] = Freelist(pool) THEN NoBuf ELSE next[Freelist(pool)][2]

\* The buffer the recycling loops start with: the tail of pool `pool`, or
\* NoBuf when the pool is empty  (bio.c:93, 114).
Victim(pool) ==
  IF prev[Freelist(pool)] = Freelist(pool) THEN NoBuf ELSE prev[Freelist(pool)][2]

\* Mutant of Retag: dev and blockno are stored in each other's field.
RetagSwapped(b, d, bn) == [dev |-> bn, blockno |-> d, valid |-> 0, refcnt |-> 1]

\* Mutant of Retag: the valid flag of the previous identity is kept.
RetagKeepValid(b, d, bn) == [dev |-> d, blockno |-> bn, valid |-> valid[b], refcnt |-> 1]

\* The fields of a recycled buffer  (bio.c:101-104).
Retag(b, d, bn) == [dev |-> d, blockno |-> bn, valid |-> 0, refcnt |-> 1]

\* The lists after b moves to the head of bucket id  (bio.c:95-100, 116-121).
RecycleLists(b, id) == InsertHead(UnlinkPN(Lists, Buf(b)), Heads(id), Buf(b))

\* Mutant of LastRef: the buffer is freed while one reference remains.
LastRefOffByOne(r) == r <= 1

\* if (b->refcnt == 0) after the decrement in brelse  (bio.c:174)
LastRef(r) == r = 0

\* s without its element x.
Without(s, x) == SelectSeq(s, LAMBDA y : y # x)

\* ---------------------------------------------------------------- bread / bget
\* bread(dev, blockno) is called; bget computes id (bio.c:74, 144).
BreadCall(c, k) ==
  /\ pc[c] = "idle"
  /\ pc' = [pc EXCEPT ![c] = "bget_acq"]
  /\ lv' = [lv EXCEPT ![c].dev = k[1], ![c].blockno = k[2],
                      ![c].id = hash(k[1], k[2])]
  /\ UNCHANGED <<next, prev, dev, blockno, valid, refcnt, data, lock, headlk,
                 freelk, disk, noff, pins, freed, nread>>

\* acquire(&bcache.headlk[id])  (bio.c:75)
BgetAcquire(c) ==
  /\ pc[c] = "bget_acq"
  /\ headlk[lv[c].id] = NoProc
  /\ \E k \in FreeCpus(c) : lv' = [lv EXCEPT ![c].cpu = k]
  /\ headlk' = [headlk EXCEPT ![lv[c].id] = c]
  /\ noff' = [noff EXCEPT ![c] = 1]
  /\ pc' = [pc EXCEPT ![c] = "bget_scan"]
  /\ UNCHANGED <<next, prev, dev, blockno, valid, refcnt, data, lock, freelk,
                 disk, pins, freed, nread>>

\* The bucket scan (bio.c:78-86); on a miss push_off and cpuid (bio.c:90-91).
BgetScan(c) ==
  /\ pc[c] = "bget_scan"
  /\ LET b == Scan(lv[c].id, lv[c].dev, lv[c].blockno) IN
       IF b # NoBuf
       THEN /\ refcnt' = [refcnt EXCEPT ![b] = HitRef(@)]
            /\ headlk' = [headlk EXCEPT ![lv[c].id] = NoProc]
            /\ noff' = [noff EXCEPT ![c] = 0]
            /\ lv' = [lv EXCEPT ![c].b = b, ![c].cpu = NoCpu, ![c].path = "hit"]
            /\ pc' = [pc EXCEPT ![c] = "hit_sleep"]
       ELSE /\ noff' = [noff EXCEPT ![c] = @ + 1]
            /\ pc' = [pc EXCEPT ![c] = "own_acq"]
            /\ UNCHANGED <<refcnt, headlk, lv>>
  /\ UNCHANGED <<next, prev, dev, blockno, valid, data, lock, freelk, disk, pins, freed, nread>>

\* acquiresleep(&b->lock); return b  (bio.c:83-84)
HitSleep(c) ==
  /\ pc[c] = "hit_sleep"
  /\ lock[lv[c].b] = NoProc
  /\ lock' = [lock EXCEPT ![lv[c].b] = c]
  /\ pc' = [pc EXCEPT ![c] = "bread_chk"]
  /\ UNCHANGED <<next, prev, dev, blockno, valid, refcnt, data, headlk, freelk,
                 disk, lv, noff, pins, freed, nread>>

\* acquire(&bcache.freelk[cpu])  (bio.c:92)
OwnAcquire(c) ==
  /\ pc[c] = "own_acq"
  /\ freelk[lv[c].cpu] = NoProc
  /\ freelk' = [freelk EXCEPT ![lv[c].cpu] = c]
  /\ noff' = [noff EXCEPT ![c] = @ + 1]
  /\ pc' = [pc EXCEPT ![c] = "own_scan"]
  /\ UNCHANGED <<next, prev, dev, blockno, valid, refcnt, data, lock, headlk,
                 disk, lv, pins, freed, nread>>

\* The body of the recycling loops (bio.c:94-104, 115-125) for the tail b of a
\* pool: the consistency check, the move to the bucket head, the re-tag.
\* `after` is the position once the buffer is recycled.
Recycle(c, b, after) ==
  IF refcnt[b] # 0
  THEN /\ pc' = [pc EXCEPT ![c] = "panic_notfree"]
       /\ UNCHANGED <<next, prev, dev, blockno, valid, refcnt, lv, freed, nread>>
  ELSE LET ls == RecycleLists(b, lv[c].id)
           t == Retag(b, lv[c].dev, lv[c].blockno) IN
       /\ next' = ls.next
       /\ prev' = ls.prev
       /\ dev' = [dev EXCEPT ![b] = t.dev]
       /\ blockno' = [blockno EXCEPT ![b] = t.blockno]
       /\ valid' = [valid EXCEPT ![b] = t.valid]
       /\ refcnt' = [refcnt EXCEPT ![b] = t.refcnt]
       /\ freed' = Without(freed, b)
       /\ nread' = [nread EXCEPT ![b] = 0]
       /\ lv' = [lv EXCEPT ![c].b = b]
       /\ pc' = [pc EXCEPT ![c] = after]

\* Mutant of OwnScan: the lock of the empty own pool is not released before
\* the loop over the other pools.
OwnScanKeepsLock(c) ==
  /\ pc[c] = "own_scan"
  /\ IF Victim(lv[c].cpu) # NoBuf
     THEN /\ Recycle(c, Victim(lv[c].cpu), "own_rel")
          /\ UNCHANGED <<freelk, noff>>
     ELSE /\ lv' = [lv EXCEPT ![c].nc = 0]
          /\ pc' = [pc EXCEPT ![c] = "steal_loop"]
          /\ UNCHANGED <<next, prev, dev, blockno, valid, refcnt, freelk, noff,
                         freed, nread>>
  /\ UNCHANGED <<data, lock, headlk, disk, pins>>

\* The scan of the own pool (bio.c:93-104), or release of its lock (bio.c:111).
OwnScan(c) ==
  /\ pc[c] = "own_scan"
  /\ IF Victim(lv[c].cpu) # NoBuf
     THEN /\ Recycle(c, Victim(lv[c].cpu), "own_rel")
          /\ UNCHANGED <<freelk, noff>>
     ELSE /\ freelk' = [freelk EXCEPT ![lv[c].cpu] = NoProc]
          /\ noff' = [noff EXCEPT ![c] = @ - 1]
          /\ lv' = [lv EXCEPT ![c].nc = 0]
          /\ pc' = [pc EXCEPT ![c] = "steal_loop"]
          /\ UNCHANGED <<next, prev, dev, blockno, valid, refcnt, freed, nread>>
  /\ UNCHANGED <<data, lock, headlk, disk, pins>>

\* Mutant of OwnRelease: the pool lock is not released before acquiresleep.
OwnReleaseKeepsPool(c) ==
  /\ pc[c] = "own_rel"
  /\ headlk' = [headlk EXCEPT ![lv[c].id] = NoProc]
  /\ noff' = [noff EXCEPT ![c] = @ - 2]
  /\ pc' = [pc EXCEPT ![c] = "own_sleep"]
  /\ UNCHANGED <<next, prev, dev, blockno, valid, refcnt, data, lock, freelk, disk,
                 lv, pins, freed, nread>>

\* release(&bcache.headlk[id]); release(&bcache.freelk[cpu])  (bio.c:105-106)
OwnRelease(c) ==
  /\ pc[c] = "own_rel"
  /\ headlk' = [headlk EXCEPT ![lv[c].id] = NoProc]
  /\ freelk' = [freelk EXCEPT ![lv[c].cpu] = NoProc]
  /\ noff' = [noff EXCEPT ![c] = @ - 2]
  /\ pc' = [pc EXCEPT ![c] = "own_sleep"]
  /\ UNCHANGED <<next, prev, dev, blockno, valid, refcnt, data, lock, disk, lv,
                 pins, freed, nread>>

\* acquiresleep(&b->lock); pop_off(); return b  (bio.c:107-109)
OwnSleep(c) ==
  /\ pc[c] = "own_sleep"
  /\ lock[lv[c].b] = NoProc
  /\ lock' = [lock EXCEPT ![lv[c].b] = c]
  /\ noff' = [noff EXCEPT ![c] = @ - 1]
  /\ lv' = [lv EXCEPT ![c].cpu = NoCpu, ![c].path = "own"]
  /\ pc' = [pc EXCEPT ![c] = "bread_chk"]
  /\ UNCHANGED <<next, prev, dev, blockno, valid, refcnt, data, headlk, freelk,
                 disk, pins, freed, nread>>

\* Mutant of StealLoop: the loop does not skip the pool of the own cpu.
StealLoopNoSkip(c) ==
  /\ pc[c] = "steal_loop"
  /\ IF lv[c].nc = NCPU
     THEN /\ noff' = [noff EXCEPT ![c] = @ - 1]
          /\ pc' = [pc EXCEPT ![c] = "panic_nobuf"]
          /\ UNCHANGED <<freelk, lv>>
     ELSE /\ freelk[lv[c].nc] = NoProc
          /\ freelk' = [freelk EXCEPT ![lv[c].nc] = c]
          /\ noff' = [noff EXCEPT ![c] = @ + 1]
          /\ pc' = [pc EXCEPT ![c] = "steal_scan"]
          /\ UNCHANGED lv
  /\ UNCHANGED <<next, prev, dev, blockno, valid, refcnt, data, lock, headlk,
                 disk, pins, freed, nread>>

\* The head of the loop over the other pools (bio.c:112-113) and its end:
\* pop_off(); panic("bget: no buffers")  (bio.c:134-135).
StealLoop(c) ==
  /\ pc[c] = "steal_loop"
  /\ IF lv[c].nc = NCPU
     THEN /\ noff' = [noff EXCEPT ![c] = @ - 1]
          /\ pc' = [pc EXCEPT ![c] = "panic_nobuf"]
          /\ UNCHANGED <<freelk, lv>>
     ELSE IF lv[c].nc = lv[c].cpu
     THEN /\ lv' = [lv EXCEPT ![c].nc = @ + 1]
          /\ UNCHANGED <<freelk, noff, pc>>
     ELSE /\ freelk[lv[c].nc] = NoProc
          /\ freelk' = [freelk EXCEPT ![lv[c].nc] = c]
          /\ noff' = [noff EXCEPT ![c] = @ + 1]
          /\ pc' = [pc EXCEPT ![c] = "steal_scan"]
          /\ UNCHANGED lv
  /\ UNCHANGED <<next, prev, dev, blockno, valid, refcnt, data, lock, headlk,
                 disk, pins, freed, nread>>

\* The scan of pool nc (bio.c:114-125), or release of its lock (bio.c:132).
StealScan(c) ==
  /\ pc[c] = "steal_scan"
  /\ IF Victim(lv[c].nc) # NoBuf
     THEN /\ Recycle(c, Victim(lv[c].nc), "steal_rel")
          /\ UNCHANGED <<freelk, noff>>
     ELSE /\ freelk' = [freelk EXCEPT ![lv[c].nc] = NoProc]
          /\ noff' = [noff EXCEPT ![c] = @ - 1]
          /\ lv' = [lv EXCEPT ![c].nc = @ + 1]
          /\ pc' = [pc EXCEPT ![c] = "steal_loop"]
          /\ UNCHANGED <<next, prev, dev, blockno, valid, refcnt, freed, nread>>
  /\ UNCHANGED <<data, lock, headlk, disk, pins>>

\* release(&bcache.headlk[id]); release(&bcache.freelk[nc])  (bio.c:126-127)
StealRelease(c) ==
  /\ pc[c] = "steal_rel"
  /\ headlk' = [headlk EXCEPT ![lv[c].id] = NoProc]
  /\ freelk' = [freelk EXCEPT ![lv[c].nc] = NoProc]
  /\ noff' = [noff EXCEPT ![c] = @ - 2]
  /\ pc' = [pc EXCEPT ![c] = "steal_sleep"]
  /\ UNCHANGED <<next, prev, dev, blockno, valid, refcnt, data, lock, disk, lv,
                 pins, freed, nread>>

\* acquiresleep(&b->lock); pop_off(); return b  (bio.c:128-130)
StealSleep(c) ==
  /\ pc[c] = "steal_sleep"
  /\ lock[lv[c].b] = NoProc
  /\ lock' = [lock EXCEPT ![lv[c].b] = c]
  /\ noff' = [noff EXCEPT ![c] = @ - 1]
  /\ lv' = [lv EXCEPT ![c].cpu = NoCpu, ![c].nc = 0, ![c].path = "steal"]
  /\ pc' = [pc EXCEPT ![c] = "bread_chk"]
  /\ UNCHANGED <<next, prev, dev, blockno, valid, refcnt, data, headlk, freelk,
                 disk, pins, freed, nread>>

\* Mutant of BreadCheck: bread reads the block whatever the valid flag says.
BreadCheckAlways(c) ==
  /\ pc[c] = "bread_chk"
  /\ data' = [data EXCEPT ![lv[c].b] = disk[KeyOf(lv[c].b)]]
  /\ valid' = [valid EXCEPT ![lv[c].b] = 1]
  /\ nread' = [nread EXCEPT ![lv[c].b] = @ + 1]
  /\ lv' = [lv EXCEPT ![c].rd = TRUE]
  /\ pc' = [pc EXCEPT ![c] = "bread_ret"]
  /\ UNCHANGED <<next, prev, dev, blockno, refcnt, lock, headlk, freelk, disk,
                 noff, pins, freed>>

\* if(!b->valid) { virtio_disk_rw(b, 0); b->valid = 1; }  (bio.c:145-148)
BreadCheck(c) ==
  /\ pc[c] = "bread_chk"
  /\ LET b == lv[c].b IN
       IF valid[b] = 0
       THEN /\ data' = [data EXCEPT ![b] = disk[KeyOf(b)]]
            /\ valid' = [valid EXCEPT ![b] = 1]
            /\ nread' = [nread EXCEPT ![b] = @ + 1]
            /\ lv' = [lv EXCEPT ![c].rd = TRUE]
       ELSE UNCHANGED <<data, valid, nread, lv>>
  /\ pc' = [pc EXCEPT ![c] = "bread_ret"]
  /\ UNCHANGED <<next, prev, dev, blockno, refcnt, lock, headlk, freelk, disk,
                 noff, pins, freed>>

\* return b  (bio.c:149): the caller now uses the buffer.
BreadReturn(c) ==
  /\ pc[c] = "bread_ret"
  /\ pc' = [pc EXCEPT ![c] = "held"]
  /\ lv' = [lv EXCEPT ![c] = [InitLocals EXCEPT !.b = lv[c].b]]
  /\ UNCHANGED <<next, prev, dev, blockno, valid, refcnt, data, lock, headlk,
                 freelk, disk, noff, pins, freed, nread>>

\* ---------------------------------------------------------------- callers
\* The holder changes the payload of the block (bio.c:10: "After changing
\* buffer data, call bwrite to write it to disk").
Modify(c, v) ==
  /\ pc[c] = "held"
  /\ data' = [data EXCEPT ![lv[c].b] = [key |-> KeyOf(lv[c].b), ver |-> v]]
  /\ pc' = [pc EXCEPT ![c] = "dirty"]
  /\ UNCHANGED <<next, prev, dev, blockno, valid, refcnt, lock, headlk, freelk,
                 disk, lv, noff, pins, freed, nread>>

\* Mutant of BwriteBody: the payload is not transferred to the device.
BwriteNoTransfer(c, b) ==
  IF ~holdingsleep(c, b)
  THEN /\ pc' = [pc EXCEPT ![c] = "panic_bwrite"]
       /\ lv' = [lv EXCEPT ![c].pb = b]
       /\ UNCHANGED disk
  ELSE /\ UNCHANGED disk
       /\ pc' = [pc EXCEPT ![c] = "held"]
       /\ UNCHANGED lv

\* The state bwrite leaves (bio.c:156-158), given any buffer pointer b; a
\* context that panics keeps the argument in pb.
BwriteBody(c, b) ==
  IF ~holdingsleep(c, b)
  THEN /\ pc' = [pc EXCEPT ![c] = "panic_bwrite"]
       /\ lv' = [lv EXCEPT ![c].pb = b]
       /\ UNCHANGED disk
  ELSE /\ disk' = [disk EXCEPT ![KeyOf(b)] = data[b]]
       /\ pc' = [pc EXCEPT ![c] = "held"]
       /\ UNCHANGED lv

\* bwrite(b)  (bio.c:153-159)
Bwrite(c, b) ==
  /\ pc[c] \in {"idle", "held", "dirty"}
  /\ BwriteBody(c, b)
  /\ UNCHANGED <<next, prev, dev, blockno, valid, refcnt, data, lock, headlk,
                 freelk, noff, pins, freed, nread>>

\* Mutant of BrelseHead: brelse goes on without the holdingsleep check.
BrelseUnchecked(c, b) ==
  /\ lock' = [lock EXCEPT ![b] = NoProc]
  /\ lv' = [lv EXCEPT ![c].b = b, ![c].id = hash(dev[b], blockno[b])]
  /\ pc' = [pc EXCEPT ![c] = "brelse_acq"]

\* The first part of brelse (bio.c:166-171), given any buffer pointer b: the
\* holdingsleep check, releasesleep, id = hash(b->dev, b->blockno); a context
\* that panics keeps the argument in pb.
BrelseHead(c, b) ==
  IF ~holdingsleep(c, b)
  THEN /\ pc' = [pc EXCEPT ![c] = "panic_brelse"]
       /\ lv' = [lv EXCEPT ![c].pb = b]
       /\ UNCHANGED lock
  ELSE /\ lock' = [lock EXCEPT ![b] = NoProc]
       /\ lv' = [lv EXCEPT ![c].b = b, ![c].id = hash(dev[b], blockno[b])]
       /\ pc' = [pc EXCEPT ![c] = "brelse_acq"]

\* brelse(b) is called  (bio.c:164-171)
BrelseCall(c, b) ==
  /\ pc[c] \in {"idle", "held"}
  /\ BrelseHead(c, b)
  /\ UNCHANGED <<next, prev, dev, blockno, valid, refcnt, data, headlk, freelk,
                 disk, noff, pins, freed, nread>>

\* acquire(&bcache.headlk[id])  (bio.c:172)
BrelseAcquire(c) ==
  /\ pc[c] = "brelse_acq"
  /\ headlk[lv[c].id] = NoProc
  /\ \E k \in FreeCpus(c) : lv' = [lv EXCEPT ![c].cpu = k]
  /\ headlk' = [headlk EXCEPT ![lv[c].id] = c]
  /\ noff' = [noff EXCEPT ![c] = 1]
  /\ pc' = [pc EXCEPT ![c] = "brelse_dec"]
  /\ UNCHANGED <<next, prev, dev, blockno, valid, refcnt, data, lock, freelk,
                 disk, pins, freed, nread>>

\* b->refcnt--; if it is 0, push_off and cpuid (bio.c:173-177); otherwise
\* release(&bcache.headlk[id])  (bio.c:189).
BrelseDec(c) ==
  /\ pc[c] = "brelse_dec"
  /\ refcnt' = [refcnt EXCEPT ![lv[c].b] = UDec(@)]
  /\ IF LastRef(refcnt'[lv[c].b])
     THEN /\ noff' = [noff EXCEPT ![c] = @ + 1]
          /\ pc' = [pc EXCEPT ![c] = "brelse_facq"]
          /\ UNCHANGED <<headlk, lv>>
     ELSE /\ headlk' = [headlk EXCEPT ![lv[c].id] = NoProc]
          /\ noff' = [noff EXCEPT ![c] = 0]
          /\ lv' = [lv EXCEPT ![c] = InitLocals]
          /\ pc' = [pc EXCEPT ![c] = "idle"]
  /\ UNCHANGED <<next, prev, dev, blockno, valid, data, lock, freelk, disk, pins, freed, nread>>

\* acquire(&bcache.freelk[cpu])  (bio.c:178)
BrelseFreeAcquire(c) ==
  /\ pc[c] = "brelse_facq"
  /\ freelk[lv[c].cpu] = NoProc
  /\ freelk' = [freelk EXCEPT ![lv[c].cpu] = c]
  /\ noff' = [noff EXCEPT ![c] = @ + 1]
  /\ pc' = [pc EXCEPT ![c] = "brelse_move"]
  /\ UNCHANGED <<next, prev, dev, blockno, valid, refcnt, data, lock, headlk,
                 disk, lv, pins, freed, nread>>

\* Mutant of BrelseLists: b goes to the pool of cpu 0, where binit put it.
BrelseListsPool0(b, cpu) == InsertHead(UnlinkNP(Lists, Buf(b)), Freelist(0), Buf(b))

\* Mutant of BrelseLists: b is linked into the pool without being unlinked.
BrelseListsNoUnlink(b, cpu) == InsertHead(Lists, Freelist(cpu), Buf(b))

\* The lists after b moves to the head of freelist[cpu]  (bio.c:179-184).
BrelseLists(b, cpu) == InsertHead(UnlinkNP(Lists, Buf(b)), Freelist(cpu), Buf(b))

\* The move, release(&bcache.freelk[cpu]) and pop_off  (bio.c:179-186).
BrelseMove(c) ==
  /\ pc[c] = "brelse_move"
  /\ next' = BrelseLists(lv[c].b, lv[c].cpu).next
  /\ prev' = BrelseLists(lv[c].b, lv[c].cpu).prev
  /\ freelk' = [freelk EXCEPT ![lv[c].cpu] = NoProc]
  /\ noff' = [noff EXCEPT ![c] = @ - 2]
  /\ freed' = Append(Without(freed, lv[c].b), lv[c].b)
  /\ pc' = [pc EXCEPT ![c] = "brelse_rel"]
  /\ UNCHANGED <<dev, blockno, valid, refcnt, data, lock, headlk, disk, lv, pins,
                 nread>>

\* release(&bcache.headlk[id])  (bio.c:189)
BrelseRelease(c) ==
  /\ pc[c] = "brelse_rel"
  /\ headlk' = [headlk EXCEPT ![lv[c].id] = NoProc]
  /\ noff' = [noff EXCEPT ![c] = @ - 1]
  /\ lv' = [lv EXCEPT ![c] = InitLocals]
  /\ pc' = [pc EXCEPT ![c] = "idle"]
  /\ UNCHANGED <<next, prev, dev, blockno, valid, refcnt, data, lock, freelk,
                 disk, pins, freed, nread>>

\* bpin(b) is called by the holder of b; id = hash(b->dev, b->blockno)
\* (bio.c:192-193).
BpinCall(c) ==
  /\ pc[c] = "held"
  /\ pins[c][lv[c].b] < MaxPin
  /\ lv' = [lv EXCEPT ![c].pb = lv[c].b, ![c].ret = "held",
                      ![c].id = hash(dev[lv[c].b], blockno[lv[c].b])]
  /\ pc' = [pc EXCEPT ![c] = "bpin_acq"]
  /\ UNCHANGED <<next, prev, dev, blockno, valid, refcnt, data, lock, headlk,
                 freelk, disk, noff, pins, freed, nread>>

\* bunpin(b) is called by a context that pinned b; id = hash(b->dev,
\* b->blockno)  (bio.c:200-201).
BunpinCall(c, b) ==
  /\ pc[c] \in {"idle", "held"}
  /\ pins[c][b] > 0
  /\ lv' = [lv EXCEPT ![c].pb = b, ![c].ret = pc[c],
                      ![c].id = hash(dev[b], blockno[b])]
  /\ pc' = [pc EXCEPT ![c] = "bunpin_acq"]
  /\ UNCHANGED <<next, prev, dev, blockno, valid, refcnt, data, lock, headlk,
                 freelk, disk, noff, pins, freed, nread>>

\* acquire(&bcache.headlk[id])  (bio.c:194, 202)
PinAcquire(c) ==
  /\ pc[c] \in {"bpin_acq", "bunpin_acq"}
  /\ headlk[lv[c].id] = NoProc
  /\ \E k \in FreeCpus(c) : lv' = [lv EXCEPT ![c].cpu = k]
  /\ headlk' = [headlk EXCEPT ![lv[c].id] = c]
  /\ noff' = [noff EXCEPT ![c] = 1]
  /\ pc' = [pc EXCEPT ![c] = IF pc[c] = "bpin_acq" THEN "bpin_inc" ELSE "bunpin_dec"]
  /\ UNCHANGED <<next, prev, dev, blockno, valid, refcnt, data, lock, freelk,
                 disk, pins, freed, nread>>

\* Mutant of BpinInc: the pin is taken without counting it in refcnt.
BpinIncNoCount(c) ==
  /\ pc[c] = "bpin_inc"
  /\ pins' = [pins EXCEPT ![c][lv[c].pb] = @ + 1]
  /\ headlk' = [headlk EXCEPT ![lv[c].id] = NoProc]
  /\ noff' = [noff EXCEPT ![c] = 0]
  /\ pc' = [pc EXCEPT ![c] = lv[c].ret]
  /\ lv' = [lv EXCEPT ![c] = [InitLocals EXCEPT !.b = lv[c].b]]
  /\ UNCHANGED <<next, prev, dev, blockno, valid, refcnt, data, lock, freelk, disk,
                 freed, nread>>

\* b->refcnt++; release(&bcache.headlk[id])  (bio.c:195-196)
BpinInc(c) ==
  /\ pc[c] = "bpin_inc"
  /\ refcnt' = [refcnt EXCEPT ![lv[c].pb] = UInc(@)]
  /\ pins' = [pins EXCEPT ![c][lv[c].pb] = @ + 1]
  /\ headlk' = [headlk EXCEPT ![lv[c].id] = NoProc]
  /\ noff' = [noff EXCEPT ![c] = 0]
  /\ pc' = [pc EXCEPT ![c] = lv[c].ret]
  /\ lv' = [lv EXCEPT ![c] = [InitLocals EXCEPT !.b = lv[c].b]]
  /\ UNCHANGED <<next, prev, dev, blockno, valid, data, lock, freelk, disk, freed, nread>>

\* Mutant of BunpinDec: like brelse, a bunpin that brings refcnt to 0 moves the
\* buffer to the pool of the cpu it runs on.
BunpinDecFrees(c) ==
  /\ pc[c] = "bunpin_dec"
  /\ refcnt' = [refcnt EXCEPT ![lv[c].pb] = UDec(@)]
  /\ pins' = [pins EXCEPT ![c][lv[c].pb] = @ - 1]
  /\ headlk' = [headlk EXCEPT ![lv[c].id] = NoProc]
  /\ noff' = [noff EXCEPT ![c] = 0]
  /\ pc' = [pc EXCEPT ![c] = lv[c].ret]
  /\ lv' = [lv EXCEPT ![c] = [InitLocals EXCEPT !.b = lv[c].b]]
  /\ IF refcnt'[lv[c].pb] = 0
     THEN /\ next' = InsertHead(UnlinkNP(Lists, Buf(lv[c].pb)), Freelist(lv[c].cpu), Buf(lv[c].pb)).next
          /\ prev' = InsertHead(UnlinkNP(Lists, Buf(lv[c].pb)), Freelist(lv[c].cpu), Buf(lv[c].pb)).prev
          /\ freed' = Append(Without(freed, lv[c].pb), lv[c].pb)
     ELSE UNCHANGED <<next, prev, freed>>
  /\ UNCHANGED <<dev, blockno, valid, data, lock, freelk, disk, nread>>

\* b->refcnt--; release(&bcache.headlk[id])  (bio.c:203-204)
BunpinDec(c) ==
  /\ pc[c] = "bunpin_dec"
  /\ refcnt' = [refcnt EXCEPT ![lv[c].pb] = UDec(@)]
  /\ pins' = [pins EXCEPT ![c][lv[c].pb] = @ - 1]
  /\ headlk' = [headlk EXCEPT ![lv[c].id] = NoProc]
  /\ noff' = [noff EXCEPT ![c] = 0]
  /\ pc' = [pc EXCEPT ![c] = lv[c].ret]
  /\ lv' = [lv EXCEPT ![c] = [InitLocals EXCEPT !.b = lv[c].b]]
  /\ UNCHANGED <<next, prev, dev, blockno, valid, data, lock, freelk, disk, freed, nread>>

\* ---------------------------------------------------------------- system
\* bread(dev, blockno), from the call to the return.
Fetch(c) ==
  \/ \E k \in Keys : BreadCall(c, k)
  \/ BgetAcquire(c)
  \/ BgetScan(c)
  \/ HitSleep(c)
  \/ OwnAcquire(c)
  \/ OwnScan(c)
  \/ OwnRelease(c)
  \/ OwnSleep(c)
  \/ StealLoop(c)
  \/ StealScan(c)
  \/ StealRelease(c)
  \/ StealSleep(c)
  \/ BreadCheck(c)
  \/ BreadReturn(c)

\* bwrite and brelse of the buffer the caller got from bread.
Use(c) ==
  \/ pc[c] \in {"held", "dirty"} /\ Bwrite(c, lv[c].b)
  \/ pc[c] = "held" /\ BrelseCall(c, lv[c].b)
  \/ BrelseAcquire(c)
  \/ BrelseDec(c)
  \/ BrelseFreeAcquire(c)
  \/ BrelseMove(c)
  \/ BrelseRelease(c)

\* bpin by the holder, bunpin by a context that pinned.
Pin(c) ==
  \/ BpinCall(c)
  \/ \E b \in Bufs : BunpinCall(c, b)
  \/ PinAcquire(c)
  \/ BpinInc(c)
  \/ BunpinDec(c)

\* bwrite or brelse of a buffer whose sleep lock the caller does not hold.
Misuse(c) ==
  \/ \E b \in Bufs : ~holdingsleep(c, b) /\ Bwrite(c, b)
  \/ \E b \in Bufs : ~holdingsleep(c, b) /\ BrelseCall(c, b)

Next == \E c \in Procs : Fetch(c) \/ Use(c) \/ Pin(c)

Spec == Init /\ [][Next]_vars

\* The callers also change the payload before bwrite.
NextData == \E c \in Procs : Fetch(c) \/ Use(c) \/ (\E v \in 0 .. MaxVer : Modify(c, v))

SpecData == Init /\ [][NextData]_vars

\* The callers change payloads, and also call bwrite and brelse without
\* holding the sleep lock.
NextMisuse ==
  \E c \in Procs :
    Fetch(c) \/ Use(c) \/ (\E v \in 0 .. MaxVer : Modify(c, v)) \/ Misuse(c)

SpecMisuse == Init /\ [][NextMisuse]_vars

\* ---------------------------------------------------------------- properties
ListHeads == {Heads(i) : i \in Buckets} \cup {Freelist(i) : i \in Cpus}

RECURSIVE SumLen(_)
SumLen(S) ==
  IF S = {} THEN 0
  ELSE LET h == CHOOSE x \in S : TRUE IN Len(List(h)) + SumLen(S \ {h})

RECURSIVE PinSum(_, _)
PinSum(S, b) ==
  IF S = {} THEN 0
  ELSE LET c == CHOOSE x \in S : TRUE IN pins[c][b] + PinSum(S \ {c}, b)

\* The pins on buffer b.
PinsOn(b) == PinSum(Procs, b)

Indexed(b) == \E i \in Buckets : InList(Buf(b), Heads(i))
Free(b) == \E k \in Cpus : InList(Buf(b), Freelist(k))

PinPcs == {"bpin_acq", "bpin_inc", "bunpin_acq", "bunpin_dec"}

\* c is between the return of bget and the call of brelse.
Using(c) ==
  \/ pc[c] \in {"bread_chk", "bread_ret", "held", "dirty"}
  \/ pc[c] \in PinPcs /\ lv[c].ret = "held"

\* c has its reference from bget counted and not yet dropped by brelse.
Fetched(c) ==
  \/ Using(c)
  \/ pc[c] \in {"hit_sleep", "own_rel", "own_sleep", "steal_rel", "steal_sleep",
                "brelse_acq", "brelse_dec"}

\* C1: every buffer is on exactly one of the bucket lists and free lists, and
\* the lengths of all the lists add up to NBUF.
C1_ExactlyOneList ==
  /\ \A b \in Bufs : Cardinality({h \in ListHeads : InList(Buf(b), h)}) = 1
  /\ SumLen(ListHeads) = NBUF

\* C1 witness: one buffer is indexed while another lies in the pool of a cpu
\* other than 0, where only brelse can have put it.
C1_Witness ==
  \E b1, b2 \in Bufs : \E k \in Cpus \ {0} :
    Indexed(b1) /\ InList(Buf(b2), Freelist(k))

\* C2: every buffer on a free list has refcnt 0, and no context has raised
\* panic("bget: freelist is not free!").
C2_FreeUnreferenced ==
  /\ \A b \in Bufs : Free(b) => refcnt[b] = 0
  /\ \A c \in Procs : pc[c] # "panic_notfree"

\* C2 witness: a context is about to recycle a buffer that was cached and
\* released before, while another buffer is pinned.
C2_Witness ==
  \E c \in Procs : \E b \in Bufs :
    /\ pc[c] \in {"own_scan", "steal_scan"}
    /\ Victim(IF pc[c] = "own_scan" THEN lv[c].cpu ELSE lv[c].nc) = b
    /\ dev[b] # 0
    /\ \E b2 \in Bufs \ {b} : PinsOn(b2) > 0

\* C3: no two indexed buffers carry the same (dev, blockno); contexts whose
\* fetches of one key overlap have the same buffer, that buffer carries the key
\* they asked for, and its refcnt counts each of them.
C3_OneCopy ==
  /\ \A b1, b2 \in Bufs : b1 # b2 /\ Indexed(b1) /\ Indexed(b2) => KeyOf(b1) # KeyOf(b2)
  /\ \A c \in Procs :
       pc[c] \in {"hit_sleep", "own_rel", "own_sleep", "steal_rel", "steal_sleep",
                  "bread_chk", "bread_ret"}
         => KeyOf(lv[c].b) = <<lv[c].dev, lv[c].blockno>>
  /\ \A c1, c2 \in Procs :
       c1 # c2 /\ Fetched(c1) /\ Fetched(c2) /\ KeyOf(lv[c1].b) = KeyOf(lv[c2].b)
         => /\ lv[c1].b = lv[c2].b
            /\ refcnt[lv[c1].b] >= Cardinality({c \in Procs : Fetched(c) /\ lv[c].b = lv[c1].b})

\* C3 witness: one context has recycled a buffer for a key and not yet taken
\* its sleep lock, another has hit the same buffer, and refcnt is 2.
C3_Witness ==
  \E c1, c2 \in Procs :
    /\ pc[c1] \in {"own_sleep", "steal_sleep"}
    /\ pc[c2] = "hit_sleep"
    /\ lv[c1].b = lv[c2].b
    /\ refcnt[lv[c1].b] = 2

\* C4: a context that bget has returned a buffer to holds the buffer's sleep
\* lock until its brelse, the buffer is indexed and its refcnt counts the
\* context besides the pins; so no two contexts use one buffer at a time.
C4_LockedOnReturn ==
  /\ \A c \in Procs :
       Using(c) => /\ lock[lv[c].b] = c
                   /\ Indexed(lv[c].b)
                   /\ refcnt[lv[c].b] >= 1 + PinsOn(lv[c].b)
  /\ \A c1, c2 \in Procs : c1 # c2 /\ Using(c1) /\ Using(c2) => lv[c1].b # lv[c2].b

\* C4 witness: bread is returning a buffer stolen from another cpu's pool
\* while another context, which hit the same buffer, waits for the sleep lock.
C4_Witness ==
  \E c1, c2 \in Procs :
    /\ pc[c1] = "bread_ret" /\ lv[c1].path = "steal"
    /\ pc[c2] = "hit_sleep" /\ lv[c2].b = lv[c1].b

\* C5: whenever bread or bwrite has returned to a context, the buffer is valid
\* and its payload is the content last written to the device for the buffer's
\* block.  The device changes only in bwrite, so a context that commits a
\* payload, releases the buffer and fetches the block again, with no commit by
\* others in between, reads back what it committed.
C5_ReadAfterWrite ==
  \A c \in Procs :
    pc[c] \in {"bread_ret", "held"}
      => /\ valid[lv[c].b] = 1
         /\ data[lv[c].b] = disk[KeyOf(lv[c].b)]

\* C5 witness: bread returns a block whose committed content is not the
\* initial one, in a buffer stolen from another cpu's pool and read again
\* from the device.
C5_Witness ==
  \E c \in Procs :
    /\ pc[c] = "bread_ret" /\ lv[c].path = "steal" /\ lv[c].rd
    /\ data[lv[c].b] = [key |-> KeyOf(lv[c].b), ver |-> 1]

\* The place of x in the sequence s.
Pos(s, x) == CHOOSE i \in 1 .. Len(s) : s[i] = x

\* c recycles a buffer in this step.
RecycleStep(c) ==
  /\ pc[c] \in {"own_scan", "steal_scan"}
  /\ pc'[c] \in {"own_rel", "steal_rel"}

\* The pool c is scanning.
ScannedPool(c) == IF pc[c] = "own_scan" THEN lv[c].cpu ELSE lv[c].nc

\* b has been cached and released since binit.
Released(b) == Free(b) /\ dev[b] # 0

Exhausted == \A b \in Bufs : Indexed(b) /\ refcnt[b] > 0

\* c is in bget past a scan that found no buffer for its key.
InMiss(c) ==
  \/ pc[c] \in {"own_acq", "own_scan", "steal_loop", "steal_scan"}
  \/ pc[c] = "bget_scan" /\ Scan(lv[c].id, lv[c].dev, lv[c].blockno) = NoBuf

\* How far position p of the miss path, with loop counter nc, is on the way to
\* panic("bget: no buffers").
MissRank(p, nc) ==
  CASE p = "bget_scan" -> 0
    [] p = "own_acq" -> 1
    [] p = "own_scan" -> 2
    [] p = "steal_loop" -> 3 + 2 * nc
    [] p = "steal_scan" -> 4 + 2 * nc
    [] p = "panic_nobuf" -> 4 + 2 * NCPU
    [] OTHER -> -1

\* c takes a step.
StepOf(c) == pc'[c] # pc[c] \/ lv'[c] # lv[c]

\* C7: while every buffer is indexed and referenced, each step of a fetch that
\* missed takes it further towards panic("bget: no buffers") and nowhere
\* else, returns no buffer, and changes no buffer's identity, refcnt, valid
\* flag, payload, sleep lock or list membership; and at the fault the key is
\* still not indexed.
C7_NoBuffers ==
  /\ [](\A c \in Procs :
          pc[c] = "panic_nobuf"
            => /\ lv[c].b = NoBuf
               /\ Scan(lv[c].id, lv[c].dev, lv[c].blockno) = NoBuf)
  /\ [][\A c \in Procs :
          Exhausted /\ InMiss(c) /\ StepOf(c)
            => /\ MissRank(pc'[c], lv'[c].nc) > MissRank(pc[c], lv[c].nc)
               /\ lv'[c].b = NoBuf
               /\ UNCHANGED <<next, prev, dev, blockno, valid, refcnt, data, lock>>]_vars

\* C7 witness: a fetch has ended in panic("bget: no buffers") with every
\* buffer indexed under another key and referenced.
C7_Witness ==
  \E c \in Procs :
    /\ pc[c] = "panic_nobuf"
    /\ Exhausted
    /\ \A b \in Bufs : KeyOf(b) # <<lv[c].dev, lv[c].blockno>>
    /\ \A b1, b2 \in Bufs : b1 # b2 => KeyOf(b1) # KeyOf(b2)

\* c ends in a usage fault in this step.
FaultStep(c) ==
  /\ pc[c] \notin {"panic_bwrite", "panic_brelse"}
  /\ pc'[c] \in {"panic_bwrite", "panic_brelse"}

\* C8: a bwrite or brelse of a buffer whose sleep lock the caller does not
\* hold ends in panic("bwrite") or panic("brelse") and changes nothing: not
\* the device, no sleep lock, no refcnt, no list.  So the device is only
\* written with the payload of a buffer by the holder of its sleep lock, and a
\* sleep lock is only released by its holder, in brelse.
C8_UsageFault ==
  [][/\ \A c \in Procs : \A b \in Bufs :
          ~holdingsleep(c, b)
            => /\ Bwrite(c, b) => pc'[c] = "panic_bwrite"
               /\ BrelseCall(c, b) => pc'[c] = "panic_brelse"
     /\ \A c \in Procs :
          FaultStep(c)
            => UNCHANGED <<next, prev, dev, blockno, valid, refcnt, data, lock,
                           headlk, freelk, disk, noff, pins>>
     /\ \A k \in Keys :
          disk'[k] # disk[k]
            => \E b \in Bufs :
                 /\ KeyOf(b) = k /\ lock[b] # NoProc /\ lock'[b] = lock[b]
                 /\ pc[lock[b]] = "dirty" /\ pc'[lock[b]] = "held"
                 /\ disk'[k] = data[b]
     /\ \A b \in Bufs :
          lock[b] # NoProc /\ lock'[b] # lock[b]
            => /\ lock'[b] = NoProc
               /\ pc'[lock[b]] = "brelse_acq" /\ lv'[lock[b]].b = b]_vars

\* C8 witness: a context has ended in panic("brelse") on a buffer that another
\* context holds locked, with a payload not yet written and refcnt still 1.
C8_Witness ==
  \E c1, c2 \in Procs :
    /\ pc[c1] = "panic_brelse"
    /\ lock[lv[c1].pb] = c2
    /\ pc[c2] = "dirty"
    /\ refcnt[lv[c1].pb] = 1

\* C9: a buffer recycled on a miss carries the requested (dev, blockno), valid
\* 0 and refcnt 1 while the recycling context still holds the bucket lock; a
\* valid indexed buffer holds a payload of its own block; and bread returns a
\* valid buffer whose payload is content of the requested block, never that of
\* the buffer's previous identity.
C9_RecycledInvalid ==
  /\ \A c \in Procs :
       pc[c] \in {"own_rel", "steal_rel"}
         => /\ KeyOf(lv[c].b) = <<lv[c].dev, lv[c].blockno>>
            /\ valid[lv[c].b] = 0
            /\ refcnt[lv[c].b] = 1
            /\ headlk[lv[c].id] = c
            /\ Indexed(lv[c].b)
  /\ \A b \in Bufs : Indexed(b) /\ valid[b] = 1 => data[b].key = KeyOf(b)
  /\ \A c \in Procs :
       pc[c] = "bread_ret"
         => /\ valid[lv[c].b] = 1
            /\ data[lv[c].b].key = <<lv[c].dev, lv[c].blockno>>

\* C9 witness: the buffer just recycled for a new key is the one that held
\* another block, whose committed payload is still in it, and it is invalid.
C9_Witness ==
  \E c \in Procs :
    /\ pc[c] \in {"own_rel", "steal_rel"}
    /\ valid[lv[c].b] = 0
    /\ data[lv[c].b].key \in Keys \ {KeyOf(lv[c].b)}
    /\ data[lv[c].b].ver = 1

\* The list of head h under the pointers nx.
ListOf(nx, h) == Walk(nx, h, nx[h], NBUF + 1)

\* b is on a free list under the pointers nx.
FreeIn(nx, b) ==
  \E k \in Cpus : \E i \in 1 .. Len(ListOf(nx, Freelist(k))) :
    ListOf(nx, Freelist(k))[i] = Buf(b)

\* C10: brelse decrements refcnt by one under the bucket lock of the buffer,
\* after giving up the sleep lock; it goes on to the move exactly when the
\* count is 0, and otherwise leaves the lists alone.  The move takes the
\* buffer out of its bucket and puts it at the head of the pool of the cpu
\* the context runs on; no other step makes a buffer free.  The move leaves
\* the key out of the index, and a hit only ever returns an indexed buffer, so
\* the next bread of the key recycles a free buffer, which it marks invalid,
\* and bread reads an invalid buffer from the device.
C10_Release ==
     [][/\ \A c \in Procs :
             pc[c] = "brelse_dec" /\ pc'[c] # "brelse_dec"
               => /\ headlk[hash(dev[lv[c].b], blockno[lv[c].b])] = c
                  /\ lock[lv[c].b] # c
                  /\ refcnt'[lv[c].b] = refcnt[lv[c].b] - 1
                  /\ (refcnt'[lv[c].b] = 0) <=> (pc'[c] = "brelse_facq")
                  /\ UNCHANGED <<next, prev>>
        /\ \A c \in Procs :
             pc[c] = "brelse_move" /\ pc'[c] # "brelse_move"
               => /\ InList(Buf(lv[c].b), Heads(lv[c].id))
                  /\ ListOf(next', Heads(lv[c].id))
                       = Without(List(Heads(lv[c].id)), Buf(lv[c].b))
                  /\ ListOf(next', Freelist(lv[c].cpu))
                       = <<Buf(lv[c].b)>> \o List(Freelist(lv[c].cpu))
                  /\ FirstMatch(ListOf(next', Heads(lv[c].id)),
                                dev[lv[c].b], blockno[lv[c].b]) = NoBuf
        /\ \A b \in Bufs :
             ~Free(b) /\ FreeIn(next', b)
               => \E c \in Procs : pc[c] = "brelse_move" /\ lv[c].b = b /\ refcnt[b] = 0
        /\ \A c \in Procs :
             pc[c] = "bget_scan" /\ pc'[c] = "hit_sleep" => Indexed(lv'[c].b)
        /\ \A c \in Procs :
             RecycleStep(c) => Free(lv'[c].b) /\ valid'[lv'[c].b] = 0
        /\ \A c \in Procs :
             pc[c] = "bread_chk" /\ pc'[c] = "bread_ret" /\ valid[lv[c].b] = 0
               => lv'[c].rd /\ data'[lv[c].b] = disk[KeyOf(lv[c].b)]]_vars

\* C10 witness: the last brelse of a buffer has just put it at the head of the
\* pool of cpu 1, in front of another free buffer; binit had put it in the
\* pool of cpu 0.
C10_Witness ==
  \E c \in Procs :
    /\ pc[c] = "brelse_rel"
    /\ lv[c].cpu = 1
    /\ Len(List(Freelist(1))) = 2
    /\ List(Freelist(1))[1] = Buf(lv[c].b)

\* b is indexed and unreferenced, and no brelse is on its way to free it.
Orphan(b) ==
  /\ Indexed(b) /\ refcnt[b] = 0
  /\ \A c \in Procs : pc[c] \in {"brelse_facq", "brelse_move"} => lv[c].b # b

\* C11: bpin and bunpin hold the bucket lock of the buffer when they change
\* refcnt, by +1 and -1, and change nothing else of any buffer: no list, no
\* identity, no valid flag, no payload, no sleep lock.  A buffer left indexed
\* with refcnt 0 keeps its identity and its bucket, is taken by no recycle,
\* and its refcnt rises again only by a hit of a fetch of its key; it becomes
\* free only by the move of a brelse.
C11_PinFrame ==
  [][/\ \A c \in Procs :
          pc[c] \in {"bpin_inc", "bunpin_dec"} /\ pc'[c] # pc[c]
            => /\ headlk[hash(dev[lv[c].pb], blockno[lv[c].pb])] = c
               /\ InList(Buf(lv[c].pb), Heads(hash(dev[lv[c].pb], blockno[lv[c].pb])))
               /\ refcnt' = [refcnt EXCEPT ![lv[c].pb] =
                                IF pc[c] = "bpin_inc" THEN @ + 1 ELSE @ - 1]
               /\ UNCHANGED <<next, prev, dev, blockno, valid, data, lock, freelk, disk>>
     /\ \A c \in Procs :
          pc[c] \in {"bpin_acq", "bunpin_acq"} /\ StepOf(c)
            => UNCHANGED <<next, prev, dev, blockno, valid, refcnt, data, lock>>
     /\ \A b \in Bufs :
          Orphan(b)
            => /\ dev'[b] = dev[b] /\ blockno'[b] = blockno[b] /\ valid'[b] = valid[b]
               /\ ~FreeIn(next', b)
               /\ \A c \in Procs : RecycleStep(c) => lv'[c].b # b
               /\ refcnt'[b] # refcnt[b]
                    => \E c \in Procs :
                         /\ pc[c] = "bget_scan" /\ pc'[c] = "hit_sleep"
                         /\ lv'[c].b = b
                         /\ <<lv[c].dev, lv[c].blockno>> = KeyOf(b)
     /\ \A b \in Bufs :
          ~Free(b) /\ FreeIn(next', b)
            => \E c \in Procs : pc[c] = "brelse_move" /\ lv[c].b = b]_vars

\* C11 witness: a buffer that a bunpin left indexed with refcnt 0 stays in its
\* bucket while a fetch of another key has just recycled the other buffer.
C11_Witness ==
  \E c \in Procs : \E b \in Bufs :
    /\ Orphan(b)
    /\ pc[c] \in {"own_rel", "steal_rel"}
    /\ lv[c].b # b
    /\ KeyOf(b) # <<lv[c].dev, lv[c].blockno>>

\* c finds its key in the bucket in this step  (bio.c:79-84).
HitStep(c) == pc[c] = "bget_scan" /\ pc'[c] = "hit_sleep"

\* C12: a hit in bget increments refcnt of the buffer it found and leaves
\* that buffer first in its bucket list (head.next), so that every bucket is
\* ordered most recently accessed first.
C12_HitMovesToHead ==
  [][\A c \in Procs :
       HitStep(c)
         => /\ refcnt'[lv'[c].b] = refcnt[lv'[c].b] + 1
            /\ next'[Heads(lv[c].id)] = Buf(lv'[c].b)]_vars

\* The spinlocks c holds.
HeldBuckets(c) == {i \in Buckets : headlk[i] = c}
HeldPools(c) == {k \in Cpus : freelk[k] = c}
HoldsSpin(c) == HeldBuckets(c) # {} \/ HeldPools(c) # {}

\* C13: a context that is about to call acquiresleep or waits in it (on the
\* hit, own-pool and steal paths of bget), or is about to do device I/O in
\* bread or bwrite, holds no bucket lock and no pool lock; every step that
\* takes a sleep lock or transfers a payload from or to the device is taken
\* by a context holding no spinlock, and bget holds none from acquiresleep
\* to its return.
C13_NoSpinWhileSleep ==
  /\ [](\A c \in Procs :
          pc[c] \in {"hit_sleep", "own_sleep", "steal_sleep", "bread_chk",
                     "bread_ret", "held", "dirty"}
            => ~HoldsSpin(c))
  /\ [][/\ \A c \in Procs : \A b \in Bufs :
             lock[b] # c /\ lock'[b] = c
               => /\ ~HoldsSpin(c)
                  /\ pc[c] \in {"hit_sleep", "own_sleep", "steal_sleep"}
                  /\ UNCHANGED <<headlk, freelk>>
        /\ \A c \in Procs :
             StepOf(c) /\ (data' # data \/ disk' # disk)
               => ~HoldsSpin(c) /\ UNCHANGED <<headlk, freelk>>]_vars

\* C13 witness: a context waits in acquiresleep after a hit while the context
\* that stole the buffer from another pool holds the sleep lock and is about
\* to read the block from the device.
C13_Witness ==
  \E c1, c2 \in Procs :
    /\ pc[c1] = "hit_sleep" /\ lock[lv[c1].b] = c2
    /\ pc[c2] = "bread_chk" /\ lv[c2].path = "steal" /\ valid[lv[c2].b] = 0

\* C14: from the recycling of a buffer for a key to its return to a free
\* pool the device is read into it at most once, whatever the number of
\* contexts that fetch the key and the order in which they get the sleep
\* lock: the one read is done by the first holder, under the sleep lock, and
\* the buffer is valid exactly when it has been read.
C14_OneRead ==
  /\ \A b \in Bufs : nread[b] <= 1
  /\ \A b \in Bufs : Indexed(b) => (valid[b] = 1 <=> nread[b] = 1)
  /\ \A c \in Procs :
       pc[c] = "bread_ret" /\ lv[c].rd
         => lock[lv[c].b] = c /\ nread[lv[c].b] = 1

\* C14 witness: the context that recycled the buffer returns from bread
\* without having read the device, because a later fetcher of the key got the
\* sleep lock first and did the one read.
C14_Witness ==
  \E c \in Procs :
    /\ pc[c] = "bread_ret"
    /\ lv[c].path \in {"own", "steal"}
    /\ ~lv[c].rd
    /\ nread[lv[c].b] = 1
    /\ refcnt[lv[c].b] = 2

\* The contexts whose reference to b, counted by bget, brelse has not yet
\* taken back.
Referents(b) == {c \in Procs : Fetched(c) /\ lv[c].b = b}

\* C15: refcnt of every buffer is the number of contexts that got or wait for
\* the buffer through bget and have not yet decremented it in brelse, plus
\* the number of bpin calls not yet undone by bunpin; as a uint it never
\* passes below 0.
C15_RefAccounting ==
  \A b \in Bufs :
    /\ refcnt[b] = Cardinality(Referents(b)) + PinsOn(b)
    /\ refcnt[b] >= 0

\* C15 witness: a buffer is held and pinned by one context while another
\* waits for its sleep lock after a hit: refcnt is 3.
C15_Witness ==
  \E c1, c2 \in Procs : \E b \in Bufs :
    /\ pc[c1] = "held" /\ lv[c1].b = b /\ pins[c1][b] = 1
    /\ pc[c2] = "hit_sleep" /\ lv[c2].b = b
    /\ refcnt[b] = 3

\* The tail of pool k (freelist[k].prev): the buffer of the pool freed first.
PoolTail(k) == RevList(Freelist(k))[1][2]

\* Pool k holds no buffer.
EmptyPool(k) == List(Freelist(k)) = << >>

NoBufStep(c) == pc[c] = "steal_loop" /\ pc'[c] = "panic_nobuf"

\* C17: at the step in which a fetch raises panic("bget: no buffers") every
\* pool is empty: no buffer is free on any cpu.
C17_FaultOnlyExhausted ==
  [][\A c \in Procs : NoBufStep(c) => \A k \in Cpus : EmptyPool(k)]_vars

\* The bucket whose list holds b, or -1 when b is in none.
BucketOf(b) ==
  IF Indexed(b) THEN CHOOSE i \in Buckets : InList(Buf(b), Heads(i)) ELSE -1

\* C18: every buffer in the list of bucket i has hash(dev, blockno) = i; dev
\* and blockno of a buffer change only in the recycling of that buffer, which
\* is then free with refcnt 0, by a context holding the lock of the bucket of
\* the new identity and the lock of the pool the buffer lies in; and the id
\* that brelse, bpin and bunpin compute from the buffer is the bucket that
\* holds it, so the lock they take is the lock of that bucket.
C18_StableIdentity ==
  /\ [](/\ \A b \in Bufs :
            Indexed(b) => BucketOf(b) = hash(dev[b], blockno[b])
        /\ \A c \in Procs :
            /\ pc[c] \in {"brelse_acq", "brelse_dec", "brelse_facq", "brelse_move"}
                 => BucketOf(lv[c].b) = lv[c].id
            /\ pc[c] \in PinPcs => BucketOf(lv[c].pb) = lv[c].id)
  /\ [][\A b \in Bufs :
          dev'[b] # dev[b] \/ blockno'[b] # blockno[b]
            => /\ refcnt[b] = 0 /\ Free(b)
               /\ \E c \in Procs :
                    /\ RecycleStep(c) /\ lv'[c].b = b
                    /\ headlk[hash(dev'[b], blockno'[b])] = c
                    /\ freelk[ScannedPool(c)] = c
                    /\ InList(Buf(b), Freelist(ScannedPool(c)))]_vars

\* C18 witness: a recycle has just moved a buffer into a bucket other than
\* the one of its previous identity, whose payload it still holds.
C18_Witness ==
  \E c \in Procs :
    /\ pc[c] \in {"own_rel", "steal_rel"}
    /\ data[lv[c].b].key \in Keys
    /\ hash(data[lv[c].b].key[1], data[lv[c].b].key[2]) # lv[c].id
    /\ BucketOf(lv[c].b) = lv[c].id

\* The holder of the spinlock c is about to acquire, NoProc when that lock is
\* free or c is not at an acquire.
WaitsFor(c) ==
  CASE pc[c] \in {"bget_acq", "brelse_acq", "bpin_acq", "bunpin_acq"}
         -> headlk[lv[c].id]
    [] pc[c] \in {"own_acq", "brelse_facq"} -> freelk[lv[c].cpu]
    [] pc[c] = "steal_loop" /\ lv[c].nc \notin {NCPU, lv[c].cpu} -> freelk[lv[c].nc]
    [] OTHER -> NoProc

\* Every context of S waits for a spinlock held by a context of S.
WaitCycle(S) == S # {} /\ \A c \in S : WaitsFor(c) \in S

\* C19: a context holds at most one bucket lock and at most one pool lock,
\* holds a pool lock only together with a bucket lock, holds no spinlock when
\* it requests a bucket lock, and holds no pool lock when it requests a pool
\* lock; no set of contexts is reachable in which each waits for a spinlock
\* held by another of the set.
C19_NoSpinDeadlock ==
  /\ \A c \in Procs :
       /\ Cardinality(HeldBuckets(c)) <= 1
       /\ Cardinality(HeldPools(c)) <= 1
       /\ HeldPools(c) # {} => HeldBuckets(c) # {}
       /\ pc[c] \in {"bget_acq", "brelse_acq", "bpin_acq", "bunpin_acq"}
            => ~HoldsSpin(c)
       /\ pc[c] \in {"own_acq", "brelse_facq", "steal_loop"}
            => HeldPools(c) = {} /\ HeldBuckets(c) = {lv[c].id}
  /\ \A S \in SUBSET Procs : ~WaitCycle(S)

\* C19 witness: a fetch that holds its bucket lock waits for the lock of the
\* pool it wants to steal from, held by a brelse that holds another bucket
\* lock and is moving a buffer into that pool.
C19_Witness ==
  \E c1, c2 \in Procs :
    /\ pc[c1] = "steal_loop" /\ WaitsFor(c1) = c2
    /\ pc[c2] = "brelse_move"
    /\ HeldBuckets(c1) # {} /\ HeldBuckets(c2) # {}
    /\ HeldBuckets(c1) # HeldBuckets(c2)

\* c is at an acquiresleep of bget  (bio.c:83, 107, 128).
AtSleep(c) == pc[c] \in {"hit_sleep", "own_sleep", "steal_sleep"}

\* The push_off calls of bget and brelse themselves (bio.c:90, 176) that c has
\* not yet undone: its depth less the one level each held spinlock accounts
\* for.
PushDepth(c) == noff[c] - Cardinality(HeldBuckets(c)) - Cardinality(HeldPools(c))

\* C20: a context that calls acquiresleep with push_off in effect, as the
\* two recycling paths of bget do, finds the sleep lock free, so it never
\* waits for a sleep lock with interrupts off; and every push_off of bget and
\* brelse is undone by one pop_off on every path: none is pending at a
\* return, at panic("bget: no buffers"), or after the move in brelse.
C20_NoSleepWhilePushedOff ==
  /\ \A c \in Procs :
       AtSleep(c) /\ PushDepth(c) > 0 => lock[lv[c].b] = NoProc
  /\ \A c \in Procs :
       /\ PushDepth(c) \in {0, 1}
       /\ pc[c] \in {"own_sleep", "steal_sleep"} => PushDepth(c) = 1
       /\ pc[c] \in {"idle", "hit_sleep", "bread_chk", "bread_ret", "held",
                      "dirty", "panic_nobuf", "brelse_rel"}
            => PushDepth(c) = 0

====
